---- MODULE Spec2Model ----
(***************************************************************************)
(* A model of sugarloaf's rich-text Compositor                             *)
(* (sugarloaf/src/components/rich_text/compositor.rs).                     *)
(*                                                                         *)
(* Numbers.  All coordinates are f32 in the source; the model uses         *)
(* integers, which f32 represents exactly at this size.  Two inputs are    *)
(* kept at a finer grain so that the source's conversions do something:    *)
(*   - a glyph's pen position is counted in eighths of a unit, so that     *)
(*     (glyph.x + 0.125).floor() is ((x8 + 1) \div 8);                      *)
(*   - an underline's offset and size are counted in halves of a unit,     *)
(*     so that .round() has ties to round away from zero.                  *)
(***************************************************************************)
EXTENDS Integers, Sequences, FiniteSets, TLC

(***************************************************************************)
(* Bounds of the model.                                                    *)
(***************************************************************************)
\* longest glyph run handed to draw_glyphs
MaxGlyphs == 2

\* draw operations are accepted while fewer than MaxBatch primitives were
\* appended since the last begin
MaxBatch == 2

\* add_image is accepted while fewer than MaxEvents texture events are pending
MaxEvents == 1

(***************************************************************************)
(* Values.                                                                 *)
(***************************************************************************)
\* [1.0, 1.0, 1.0, 1.0], the colour of a bitmap glyph
White == "white"

\* the colours a caller passes in styles and draws
TextColor == "text"
BgColor == "bg"
CursorColor == "cursor"
UnderlineColor == "underline"
RectColor == "fill"

\* Rect::new(x, y, width, height)
NewRect(x, y, w, h) == [x |-> x, y |-> y, width |-> w, height |-> h]

\* subpx_bias.0 = 0.125, in eighths of a unit
SubpxBiasX == 1

\* subpx_bias.1 = 0., in eighths of a unit
SubpxBiasY == 0

\* f32::floor of a value given in eighths
Floor8(v8) == v8 \div 8

\* f32::round of a value given in halves: ties round away from zero
Round2(v2) == IF v2 >= 0 THEN (v2 + 1) \div 2 ELSE -((1 - v2) \div 2)

Max(a, b) == IF a >= b THEN a ELSE b

\* the width of the caret rectangle, 3.0
CaretWidth == 3

(***************************************************************************)
(* Options.  Option<T> is a sequence of at most one element, so that an    *)
(* absent value and a present one compare.                                 *)
(***************************************************************************)
NoneOf == << >>

Some(v) == << v >>

IsSome(o) == Len(o) = 1

Unwrap(o) == o[1]

(***************************************************************************)
(* The image cache, as the compositor uses it (image_cache::ImageCache,    *)
(* ImageId, ImageLocation, TextureEvent).                                  *)
(***************************************************************************)
\* the identifiers callers name: add_image hands out the first, the second
\* is never registered
ImageIds == {1, 2}

Allocatable == {1}

\* ImageId::has_alpha()
HasAlpha(image) == image % 2 = 1

\* the atlas location of a resident image
Location(image) == [texture_id |-> 1 + (image \div 10), min |-> <<image, 0>>, max |-> <<image + 1, 1>>]

\* [img.min.0, img.min.1, img.max.0, img.max.1]
Coords(img) == <<img.min[1], img.min[2], img.max[1], img.max[2]>>

\* ImageCache::get: the location of a registered image, or nothing
ImagesGet(registered, image) == IF image \in registered THEN Some(Location(image)) ELSE NoneOf

\* the texture event an allocation leaves pending
TextureEventOf(image) == image

(***************************************************************************)
(* The glyph cache, as draw_glyphs uses it (image_cache::GlyphCache and    *)
(* its session).  A glyph id decides what the rasterizer yields:           *)
(*   1  a mask glyph without descender ink                                 *)
(*   2  a mask glyph with descender ink in [2, 4]                          *)
(*   3  a bitmap glyph whose image has no alpha channel                    *)
(*   4  a short mask glyph with descender ink in [1, 2]                    *)
(*   5  a glyph that does not rasterize: the lookup misses                 *)
(*   6  a glyph whose entry's image has no atlas location                  *)
(*   7  a bitmap glyph whose image has an alpha channel                    *)
(***************************************************************************)
MissingGlyph == 5

\* the image of glyph 6's entry
StaleImage == 60

Entry(id) ==
    CASE id = 1 -> [left |-> 0, top |-> 8, width |-> 5, height |-> 8, is_bitmap |-> FALSE, desc |-> NoneOf, image |-> 11]
      [] id = 2 -> [left |-> 0, top |-> 5, width |-> 5, height |-> 8, is_bitmap |-> FALSE, desc |-> Some(<<2, 4>>), image |-> 21]
      [] id = 3 -> [left |-> 1, top |-> 9, width |-> 8, height |-> 8, is_bitmap |-> TRUE, desc |-> NoneOf, image |-> 30]
      [] id = 4 -> [left |-> 0, top |-> 4, width |-> 3, height |-> 4, is_bitmap |-> FALSE, desc |-> Some(<<1, 2>>), image |-> 41]
      [] id = 7 -> [left |-> 1, top |-> 9, width |-> 8, height |-> 8, is_bitmap |-> TRUE, desc |-> NoneOf, image |-> 71]
      [] OTHER -> [left |-> 0, top |-> 6, width |-> 4, height |-> 6, is_bitmap |-> FALSE, desc |-> Some(<<0, 1>>), image |-> 60]

\* session.get(glyph.id, glyph.x, glyph.y): the entry, or nothing on a miss
SessionGet(id) == IF id = MissingGlyph THEN NoneOf ELSE Some(Entry(id))

\* session.get_image(entry.image): the atlas location, or nothing
SessionGetImage(image) == IF image = StaleImage THEN NoneOf ELSE Some(Location(image))

\* a glyph the session rasterizes into the atlas the first time it is asked for
Rasterizes(id) == id # MissingGlyph /\ Entry(id).image # StaleImage

(***************************************************************************)
(* The batch accumulator (batch::BatchManager): the primitives appended,   *)
(* in order.                                                               *)
(***************************************************************************)
RectPrim(rect, depth, color) ==
    [kind |-> "rect", rect |-> rect, depth |-> depth, color |-> color,
     coords |-> << >>, image |-> 0, has_alpha |-> FALSE]

ImagePrim(rect, depth, color, coords, image, has_alpha) ==
    [kind |-> "image", rect |-> rect, depth |-> depth, color |-> color,
     coords |-> coords, image |-> image, has_alpha |-> has_alpha]

MaskPrim(rect, depth, color, coords, image, has_alpha) ==
    [kind |-> "mask", rect |-> rect, depth |-> depth, color |-> color,
     coords |-> coords, image |-> image, has_alpha |-> has_alpha]

\* BatchManager::add_rect
AddRect(batch, rect, depth, color) == Append(batch, RectPrim(rect, depth, color))

\* BatchManager::add_image_rect
AddImageRect(batch, rect, depth, color, coords, image, has_alpha) ==
    Append(batch, ImagePrim(rect, depth, color, coords, image, has_alpha))

\* BatchManager::add_mask_rect
AddMaskRect(batch, rect, depth, color, coords, image, has_alpha) ==
    Append(batch, MaskPrim(rect, depth, color, coords, image, has_alpha))

\* BatchManager::reset
Reset == << >>

\* the primitives of a batch that lie at one depth, in emission order
RECURSIVE AtDepth(_, _)
AtDepth(batch, d) ==
    IF batch = << >> THEN << >>
    ELSE IF Head(batch).depth = d THEN <<Head(batch)>> \o AtDepth(Tail(batch), d)
    ELSE AtDepth(Tail(batch), d)

\* the depths draws are made at
Depths == {0, 1}

\* BatchManager::build_display_list: the batch's contents, depth-ordered
DepthOrdered(batch) == AtDepth(batch, 0) \o AtDepth(batch, 1)

(***************************************************************************)
(* The cached record of a run (CachedRect, ComposedRect).                  *)
(***************************************************************************)
CachedImage(rect, color, coords, image, has_alpha) ==
    [kind |-> "Image", rect |-> rect, color |-> color, coords |-> coords,
     image |-> image, has_alpha |-> has_alpha]

CachedMask(rect, color, coords, image, has_alpha) ==
    [kind |-> "Mask", rect |-> rect, color |-> color, coords |-> coords,
     image |-> image, has_alpha |-> has_alpha]

CachedStandard(rect, color) ==
    [kind |-> "Standard", rect |-> rect, color |-> color, coords |-> << >>,
     image |-> 0, has_alpha |-> FALSE]

(***************************************************************************)
(* Inputs: glyphs, styles, rectangles.                                     *)
(***************************************************************************)
\* Glyph { id, x, y }, the pen position in eighths of a unit
Glyph(id, x8, y8) == [id |-> id, x |-> x8, y |-> y8]

\* the pen's y of every run of the model, 10.0
PenY == 80

\* the glyphs runs are made of: each kind of glyph at pen x = 0, the glyph
\* with descender ink also at 8.0 and at 22.0, the short glyph also at 1.0
\* (its ink then lies within that of glyph 2 at 0), a bitmap glyph at 0.875
GlyphPool ==
    { Glyph(1, 0, PenY), Glyph(2, 0, PenY), Glyph(2, 64, PenY), Glyph(2, 176, PenY),
      Glyph(3, 7, PenY), Glyph(4, 0, PenY), Glyph(4, 8, PenY), Glyph(5, 0, PenY),
      Glyph(6, 0, PenY), Glyph(7, 0, PenY) }

\* the sequences over S of length at most n
SeqsUpTo(S, n) == UNION { [1..k -> S] : k \in 0..n }

GlyphRuns == SeqsUpTo(GlyphPool, MaxGlyphs)

\* style.topline, style.baseline, style.line_height of every run of the model
Topline == 1

Baseline == 10

LineHeight == 12

\* an underline descriptor, offset and size in halves of a unit
Underline(offset2, size2) == [offset |-> offset2, size |-> size2, color |-> UnderlineColor]

\* SugarCursor
CursorNone == [kind |-> "None", color |-> White]

CursorBlock == [kind |-> "Block", color |-> CursorColor]

CursorCaret == [kind |-> "Caret", color |-> CursorColor]

\* TextRunStyle (the font, its coordinates and its size select the glyph
\* cache's entries; the model has one font)
Style(bg, ul, cur) ==
    [color |-> TextColor, background_color |-> bg, underline |-> ul, cursor |-> cur,
     topline |-> Topline, baseline |-> Baseline, line_height |-> LineHeight]

Underlines == { NoneOf, Some(Underline(0, 0)), Some(Underline(3, 5)) }

Styles ==
    { Style(bg, ul, cur) : bg \in {NoneOf, Some(BgColor)}, ul \in Underlines,
                           cur \in {CursorNone, CursorBlock, CursorCaret} }

\* the rectangles of runs: the extent [0, 20], the extent [2, 16] and the
\* empty extent at 4
Rects == { NewRect(0, 0, 20, 12), NewRect(2, 0, 14, 12), NewRect(4, 0, 0, 12) }

\* a draw_glyphs call's arguments
Call(rect, depth, style, gs) == [rect |-> rect, depth |-> depth, style |-> style, glyphs |-> gs]

NoCall == Call(NewRect(0, 0, 0, 0), 0, Style(NoneOf, NoneOf, CursorNone), << >>)

\* every call
RunCalls == { Call(r, d, s, gs) : r \in Rects, d \in Depths, s \in Styles, gs \in GlyphRuns }

\* the calls made over frames: a run with two descenders and a run that
\* misses, each underlined or plain with a background
FrameCalls ==
    { Call(NewRect(0, 0, 20, 12), d, s, gs) :
        d \in Depths,
        s \in { Style(NoneOf, Some(Underline(0, 0)), CursorNone),
                Style(Some(BgColor), NoneOf, CursorNone) },
        gs \in { <<Glyph(2, 0, PenY), Glyph(2, 64, PenY)>>, <<Glyph(5, 0, PenY)>> } }

(***************************************************************************)
(* State.                                                                  *)
(***************************************************************************)
VARIABLES
    images,      \* Compositor.images: the registered image ids
    events,      \* Compositor.images: the texture events pending
    glyphs,      \* Compositor.glyphs: the glyph ids with a cached entry
    batches,     \* Compositor.batches: the primitives appended, in order
    intercepts,  \* Compositor.intercepts
    pc,          \* where draw_glyphs stands: "idle", "glyphs" or "sweep"
    call,        \* the arguments of the draw_glyphs call running or last returned
    gi,          \* draw_glyphs: the index of the next glyph
    ui,          \* draw_glyphs: the index of the next intercept of the sweep
    ux,          \* draw_glyphs: the sweep position
    result,      \* draw_glyphs: the list being built; then the caller's copy
    list,        \* the display list the last finish built
    sink,        \* the texture events the last finish delivered
    lastOp,      \* the operation that ran last
    arg,         \* its arguments; for draw_glyphs, the intercept buffer it found
    ret,         \* its return value
    base,        \* the batch's length when the last drawing operation began
    drawn,       \* the primitives the call that returned result had appended
    swept,       \* the intercept buffer as the last underlined call left it
    frameOpen,   \* begin was called and finish has not been since
    sinceBegin   \* the primitives appended since the last begin

vars == <<images, events, glyphs, batches, intercepts, pc, call, gi, ui, ux, result,
          list, sink, lastOp, arg, ret, base, drawn, swept, frameOpen, sinceBegin>>

\* Compositor::new
Init ==
    /\ images = {}
    /\ events = << >>
    /\ glyphs = {}
    /\ batches = << >>
    /\ intercepts = << >>
    /\ pc = "idle"
    /\ call = NoCall
    /\ gi = 0
    /\ ui = 0
    /\ ux = 0
    /\ result = << >>
    /\ list = << >>
    /\ sink = << >>
    /\ lastOp = "new"
    /\ arg = << >>
    /\ ret = << >>
    /\ base = 0
    /\ drawn = << >>
    /\ swept = << >>
    /\ frameOpen = FALSE
    /\ sinceBegin = << >>

\* the primitives appended to the batch since the last drawing operation began
Appended == SubSeq(batches, base + 1, Len(batches))

\* an operation other than draw_glyphs leaves draw_glyphs where it returned
NoLocals == pc' = "idle" /\ call' = call /\ gi' = 0 /\ ui' = 0 /\ ux' = 0

\* an operation other than finish leaves no display list and no delivered events
NoOutput == list' = << >> /\ sink' = << >>

\* sinceBegin follows the batch
Track == sinceBegin' = sinceBegin \o SubSeq(batches', Len(batches) + 1, Len(batches'))

\* a drawing operation may start
MayDraw == pc = "idle" /\ Len(sinceBegin) < MaxBatch

(***************************************************************************)
(* draw_glyphs: the locals a style defines.                                *)
(***************************************************************************)
HasUnderline(style) == IsSome(style.underline)

\* underline.offset.round() as i32
UnderlineOffset(style) ==
    IF HasUnderline(style) THEN Round2(Unwrap(style.underline).offset) ELSE 0

\* underline.size.round().max(1.)
UnderlineSize(style) ==
    IF HasUnderline(style) THEN Max(Round2(Unwrap(style.underline).size), 1) ELSE 0

\* underline.color, or [0.0, 0.0, 0.0, 0.0]
UnderlineColorOf(style) ==
    IF HasUnderline(style) THEN Unwrap(style.underline).color ELSE "transparent"

(***************************************************************************)
(* draw_glyphs: one glyph of the loop.                                     *)
(***************************************************************************)
\* the glyph has an entry and the entry's image an atlas location
Resolved(glyph) ==
    /\ IsSome(SessionGet(glyph.id))
    /\ IsSome(SessionGetImage(Unwrap(SessionGet(glyph.id)).image))

\* gx = (glyph.x + subpx_bias.0).floor() + entry.left as f32
GX(glyph, entry) == Floor8(glyph.x + SubpxBiasX) + entry.left

\* gy = (glyph.y + subpx_bias.1).floor() - entry.top as f32
GY(glyph, entry) == Floor8(glyph.y + SubpxBiasY) - entry.top

\* Rect::new(gx, gy, entry.width as f32, entry.height as f32)
GlyphRect(glyph, entry) == NewRect(GX(glyph, entry), GY(glyph, entry), entry.width, entry.height)

\* LineRect from the run rectangle's y, not from the topline
LineRectAtRectY(c) == NewRect(c.rect.x, c.rect.y, c.rect.width, c.style.line_height)

\* the rectangle of the background and of the block cursor: `rect` there
\* is the run's rectangle, the glyph's being local to the branches above
LineRect(c) == NewRect(c.rect.x, c.style.topline, c.rect.width, c.style.line_height)

\* CaretRect as wide as the run
CaretRectRunWide(c) == NewRect(c.rect.x, c.style.topline, c.rect.width, c.style.line_height)

\* the rectangle of the caret cursor
CaretRect(c) == NewRect(c.rect.x, c.style.topline, CaretWidth, c.style.line_height)

\* BatchGlyph with the run's colour for a bitmap glyph too
BatchGlyphTextColour(batch, c, glyph) ==
    LET entry == Unwrap(SessionGet(glyph.id))
        img == Unwrap(SessionGetImage(entry.image))
    IN IF entry.is_bitmap
       THEN AddImageRect(batch, GlyphRect(glyph, entry), c.depth, c.style.color, Coords(img),
                         img.texture_id, HasAlpha(entry.image))
       ELSE AddMaskRect(batch, GlyphRect(glyph, entry), c.depth, c.style.color, Coords(img),
                        img.texture_id, TRUE)

\* the batch after the glyph's own primitive
BatchGlyph(batch, c, glyph) ==
    LET entry == Unwrap(SessionGet(glyph.id))
        img == Unwrap(SessionGetImage(entry.image))
    IN IF entry.is_bitmap
       THEN AddImageRect(batch, GlyphRect(glyph, entry), c.depth, White, Coords(img),
                         img.texture_id, HasAlpha(entry.image))
       ELSE AddMaskRect(batch, GlyphRect(glyph, entry), c.depth, c.style.color, Coords(img),
                        img.texture_id, TRUE)

\* the batch after the background rectangle
BatchBackground(batch, c) ==
    IF IsSome(c.style.background_color)
    THEN AddRect(batch, LineRect(c), c.depth, Unwrap(c.style.background_color))
    ELSE batch

\* the batch after the cursor rectangle
BatchCursor(batch, c) ==
    CASE c.style.cursor.kind = "Block" -> AddRect(batch, LineRect(c), c.depth, c.style.cursor.color)
      [] c.style.cursor.kind = "Caret" -> AddRect(batch, CaretRect(c), c.depth, c.style.cursor.color)
      [] OTHER -> batch

\* LoopBatch with the background drawn for a glyph that did not resolve
LoopBatchAlwaysBackground(batch, c, glyph) ==
    IF Resolved(glyph)
    THEN BatchCursor(BatchBackground(BatchGlyph(batch, c, glyph), c), c)
    ELSE BatchBackground(batch, c)

\* the batch after one iteration of the loop over the glyphs
LoopBatch(batch, c, glyph) ==
    IF Resolved(glyph)
    THEN BatchCursor(BatchBackground(BatchGlyph(batch, c, glyph), c), c)
    ELSE batch

\* the list after the glyph's own entry
ResultGlyph(res, c, glyph) ==
    LET entry == Unwrap(SessionGet(glyph.id))
        img == Unwrap(SessionGetImage(entry.image))
    IN IF entry.is_bitmap
       THEN Append(res, CachedImage(GlyphRect(glyph, entry), White, Coords(img),
                                    img.texture_id, HasAlpha(entry.image)))
       ELSE Append(res, CachedMask(GlyphRect(glyph, entry), c.style.color, Coords(img),
                                   img.texture_id, TRUE))

\* the list after the background rectangle
ResultBackground(res, c) ==
    IF IsSome(c.style.background_color)
    THEN Append(res, CachedStandard(LineRect(c), Unwrap(c.style.background_color)))
    ELSE res

\* ResultCursor with the caret drawn but not recorded
ResultCursorNoCaret(res, c) ==
    CASE c.style.cursor.kind = "Block" -> Append(res, CachedStandard(LineRect(c), c.style.cursor.color))
      [] OTHER -> res

\* the list after the cursor rectangle
ResultCursor(res, c) ==
    CASE c.style.cursor.kind = "Block" -> Append(res, CachedStandard(LineRect(c), c.style.cursor.color))
      [] c.style.cursor.kind = "Caret" -> Append(res, CachedStandard(CaretRect(c), c.style.cursor.color))
      [] OTHER -> res

\* LoopResult with the cursor recorded before the background
LoopResultCursorFirst(res, c, glyph) ==
    IF Resolved(glyph)
    THEN ResultBackground(ResultCursor(ResultGlyph(res, c, glyph), c), c)
    ELSE res

\* the list after one iteration of the loop over the glyphs
LoopResult(res, c, glyph) ==
    IF Resolved(glyph)
    THEN ResultCursor(ResultBackground(ResultGlyph(res, c, glyph), c), c)
    ELSE res

\* Intercepting with a glyph that just reaches the underline taken too
InterceptingInclusive(c, glyph) ==
    /\ Resolved(glyph)
    /\ HasUnderline(c.style)
    /\ Entry(glyph.id).top - UnderlineOffset(c.style) <= Entry(glyph.id).height
    /\ IsSome(Entry(glyph.id).desc)

\* Intercepting without the test of the underline flag
InterceptingAnyStyle(c, glyph) ==
    /\ Resolved(glyph)
    /\ Entry(glyph.id).top - UnderlineOffset(c.style) < Entry(glyph.id).height
    /\ IsSome(Entry(glyph.id).desc)

\* the glyph's descender ink is recorded
Intercepting(c, glyph) ==
    /\ Resolved(glyph)
    /\ HasUnderline(c.style)
    /\ Entry(glyph.id).top - UnderlineOffset(c.style) < Entry(glyph.id).height
    /\ IsSome(Entry(glyph.id).desc)

\* desc_ink, shifted by gx
DescInk(glyph) ==
    LET entry == Entry(glyph.id)
        range == Unwrap(entry.desc)
    IN <<range[1] + GX(glyph, entry), range[2] + GX(glyph, entry)>>

\* the intercept buffer after one iteration of the loop over the glyphs
LoopIntercepts(ints, c, glyph) ==
    IF Intercepting(c, glyph) THEN Append(ints, DescInk(glyph)) ELSE ints

\* the glyph cache after session.get
SessionGlyphs(cached, glyph) ==
    IF IsSome(SessionGet(glyph.id)) THEN cached \cup {glyph.id} ELSE cached

\* the pending texture events after session.get
SessionEvents(pending, cached, glyph) ==
    IF glyph.id \notin cached /\ Rasterizes(glyph.id)
    THEN Append(pending, TextureEventOf(Entry(glyph.id).image))
    ELSE pending

(***************************************************************************)
(* draw_glyphs, step by step.                                              *)
(***************************************************************************)
\* the call's return
Return ==
    /\ pc' = "idle"
    /\ gi' = 0
    /\ ui' = 0
    /\ ux' = 0
    /\ lastOp' = "draw_glyphs"
    /\ drawn' = SubSeq(batches', base + 1, Len(batches'))

\* EnterIntercepts with the buffer never cleared
EnterInterceptsKeeps(ints, style) == ints

\* EnterIntercepts with the buffer cleared whatever the style
EnterInterceptsAlways(ints, style) == << >>

\* the intercept buffer when the loop over the glyphs starts
EnterIntercepts(ints, style) == IF HasUnderline(style) THEN << >> ELSE ints

\* the call, up to the loop over the glyphs
DrawGlyphsEnter(c) ==
    /\ MayDraw
    /\ pc' = "glyphs"
    /\ call' = c
    /\ intercepts' = EnterIntercepts(intercepts, c.style)
    /\ result' = << >>
    /\ gi' = 1
    /\ ui' = 0
    /\ ux' = c.rect.x
    /\ base' = Len(batches)
    /\ lastOp' = "draw_glyphs:enter"
    /\ arg' = [intercepts |-> intercepts]
    /\ ret' = << >>
    /\ NoOutput
    /\ UNCHANGED <<swept, images, events, glyphs, batches, drawn, frameOpen, sinceBegin>>

\* one iteration of the loop over the glyphs
GlyphStep ==
    /\ pc = "glyphs"
    /\ gi <= Len(call.glyphs)
    /\ LET glyph == call.glyphs[gi]
       IN /\ glyphs' = SessionGlyphs(glyphs, glyph)
          /\ events' = SessionEvents(events, glyphs, glyph)
          /\ batches' = LoopBatch(batches, call, glyph)
          /\ result' = LoopResult(result, call, glyph)
          /\ intercepts' = LoopIntercepts(intercepts, call, glyph)
    /\ gi' = gi + 1
    /\ lastOp' = "draw_glyphs:glyph"
    /\ Track
    /\ UNCHANGED <<swept, images, pc, call, ui, ux, list, sink, arg, ret, base, drawn, frameOpen>>

\* the end of the loop of a run without underline: the call returns
ReturnPlain ==
    /\ pc = "glyphs"
    /\ gi > Len(call.glyphs)
    /\ ~HasUnderline(call.style)
    /\ UNCHANGED <<swept, images, events, glyphs, batches, intercepts, call, result, list, sink,
                   arg, ret, base, frameOpen, sinceBegin>>
    /\ Return

\* every interval grows by 1 on each side
Expanded(ints) == [i \in 1..Len(ints) |-> <<ints[i][1] - 1, ints[i][2] + 1>>]

\* the end of the loop of an underlined run: the intervals are expanded and
\* the sweep starts at the run's left edge
SweepEnter ==
    /\ pc = "glyphs"
    /\ gi > Len(call.glyphs)
    /\ HasUnderline(call.style)
    /\ intercepts' = Expanded(intercepts)
    /\ ux' = call.rect.x
    /\ ui' = 1
    /\ pc' = "sweep"
    /\ lastOp' = "draw_glyphs:expand"
    /\ UNCHANGED <<swept, images, events, glyphs, batches, call, gi, result, list, sink, arg, ret,
                   base, drawn, frameOpen, sinceBegin>>

\* uy = style.baseline - underline_offset as f32
UY(c) == c.style.baseline - UnderlineOffset(c.style)

\* the underline rectangle from the sweep position to `to`
UnderlineRect(c, from, to) == NewRect(from, UY(c), to - from, UnderlineSize(c.style))

\* the batch after the sweep has looked at the gap before `to`
SweepBatch(batch, c, from, to) ==
    IF from < to
    THEN AddRect(batch, UnderlineRect(c, from, to), c.depth, UnderlineColorOf(c.style))
    ELSE batch

\* SweepResult with an empty gap recorded too
SweepResultEmptyGap(res, c, from, to) ==
    IF from <= to
    THEN Append(res, CachedStandard(UnderlineRect(c, from, to), UnderlineColorOf(c.style)))
    ELSE res

\* the list after the sweep has looked at the gap before `to`
SweepResult(res, c, from, to) ==
    IF from < to
    THEN Append(res, CachedStandard(UnderlineRect(c, from, to), UnderlineColorOf(c.style)))
    ELSE res

\* one iteration of the sweep over the intercepts
SweepStep ==
    /\ pc = "sweep"
    /\ ui <= Len(intercepts)
    /\ batches' = SweepBatch(batches, call, ux, intercepts[ui][1])
    /\ result' = SweepResult(result, call, ux, intercepts[ui][1])
    /\ ux' = intercepts[ui][2]
    /\ ui' = ui + 1
    /\ lastOp' = "draw_glyphs:sweep"
    /\ Track
    /\ UNCHANGED <<swept, images, events, glyphs, intercepts, pc, call, gi, list, sink, arg, ret,
                   base, drawn, frameOpen>>

\* RunEnd without the run's left edge
RunEndFromZero(c) == c.rect.width

\* end = x + rect.width
RunEnd(c) == c.rect.x + c.rect.width

\* the gap after the last intercept, and the call returns
ReturnSwept ==
    /\ pc = "sweep"
    /\ ui > Len(intercepts)
    /\ batches' = SweepBatch(batches, call, ux, RunEnd(call))
    /\ result' = SweepResult(result, call, ux, RunEnd(call))
    /\ Track
    /\ swept' = intercepts
    /\ UNCHANGED <<images, events, glyphs, intercepts, call, list, sink, arg, ret, base,
                   frameOpen>>
    /\ Return

(***************************************************************************)
(* The other operations.                                                   *)
(***************************************************************************)
\* Begin without the reset of the batch
BeginNoReset ==
    /\ pc = "idle"
    /\ batches' = batches
    /\ sinceBegin' = << >>
    /\ frameOpen' = TRUE
    /\ lastOp' = "begin"
    /\ arg' = << >>
    /\ ret' = << >>
    /\ NoLocals
    /\ NoOutput
    /\ UNCHANGED <<swept, images, events, glyphs, intercepts, result, base, drawn>>

\* Compositor::begin
Begin ==
    /\ pc = "idle"
    /\ batches' = Reset
    /\ sinceBegin' = << >>
    /\ frameOpen' = TRUE
    /\ lastOp' = "begin"
    /\ arg' = << >>
    /\ ret' = << >>
    /\ NoLocals
    /\ NoOutput
    /\ UNCHANGED <<swept, images, events, glyphs, intercepts, result, base, drawn>>

\* ImageCache::drain_events: what the sink receives, and what stays pending
DrainEvents(pending) == [delivered |-> pending, pending |-> << >>]

\* BuildDisplayList with the batch kept
BuildDisplayListKeeps(batch) == [list |-> DepthOrdered(batch), batch |-> batch]

\* BatchManager::build_display_list: the list built, and the batch left.  The
\* batch is consumed: a second finish with no draw in between builds an empty
\* list (batch.rs is not part of the sources at hand; this follows the design
\* document's description of finish)
BuildDisplayList(batch) == [list |-> DepthOrdered(batch), batch |-> << >>]

\* Finish without the drain of the texture events
FinishNoDrain ==
    /\ pc = "idle"
    /\ sink' = << >>
    /\ events' = events
    /\ list' = BuildDisplayList(batches).list
    /\ batches' = BuildDisplayList(batches).batch
    /\ frameOpen' = FALSE
    /\ lastOp' = "finish"
    /\ arg' = [open |-> frameOpen, prev |-> lastOp, prevList |-> list]
    /\ ret' = << >>
    /\ NoLocals
    /\ UNCHANGED <<swept, images, glyphs, intercepts, result, base, drawn, sinceBegin>>

\* Finish without the display list built
FinishNoList ==
    /\ pc = "idle"
    /\ sink' = DrainEvents(events).delivered
    /\ events' = DrainEvents(events).pending
    /\ list' = << >>
    /\ batches' = batches
    /\ frameOpen' = FALSE
    /\ lastOp' = "finish"
    /\ arg' = [open |-> frameOpen, prev |-> lastOp, prevList |-> list]
    /\ ret' = << >>
    /\ NoLocals
    /\ UNCHANGED <<swept, images, glyphs, intercepts, result, base, drawn, sinceBegin>>

\* Compositor::finish
Finish ==
    /\ pc = "idle"
    /\ sink' = DrainEvents(events).delivered
    /\ events' = DrainEvents(events).pending
    /\ list' = BuildDisplayList(batches).list
    /\ batches' = BuildDisplayList(batches).batch
    /\ frameOpen' = FALSE
    /\ lastOp' = "finish"
    /\ arg' = [open |-> frameOpen, prev |-> lastOp, prevList |-> list]
    /\ ret' = << >>
    /\ NoLocals
    /\ UNCHANGED <<swept, images, glyphs, intercepts, result, base, drawn, sinceBegin>>

\* Compositor::add_image: the cache allocates an identifier, or cannot
AddImage ==
    /\ pc = "idle"
    /\ Len(events) < MaxEvents
    /\ \/ \E image \in Allocatable \ images :
            /\ images' = images \cup {image}
            /\ events' = Append(events, TextureEventOf(image))
            /\ ret' = Some(image)
       \/ /\ UNCHANGED <<images, events>>
          /\ ret' = NoneOf
    /\ lastOp' = "add_image"
    /\ arg' = << >>
    /\ NoLocals
    /\ NoOutput
    /\ UNCHANGED <<swept, glyphs, batches, intercepts, result, base, drawn, frameOpen, sinceBegin>>

\* Compositor::remove_image
RemoveImage(image) ==
    /\ pc = "idle"
    /\ images' = images \ {image}
    /\ ret' = Some(image \in images)
    /\ lastOp' = "remove_image"
    /\ arg' = [image |-> image]
    /\ NoLocals
    /\ NoOutput
    /\ UNCHANGED <<swept, events, glyphs, batches, intercepts, result, base, drawn, frameOpen,
                   sinceBegin>>

\* Compositor::draw_rect
DrawRect(rect, depth, color) ==
    /\ MayDraw
    /\ batches' = AddRect(batches, rect, depth, color)
    /\ base' = Len(batches)
    /\ lastOp' = "draw_rect"
    /\ arg' = [rect |-> rect, depth |-> depth, color |-> color]
    /\ ret' = << >>
    /\ Track
    /\ NoLocals
    /\ NoOutput
    /\ UNCHANGED <<swept, images, events, glyphs, intercepts, result, drawn, frameOpen>>

\* DrawImageBatch without the lookup's check
DrawImageBatchUnchecked(batch, registered, rect, depth, color, image) ==
    AddImageRect(batch, rect, depth, color, Coords(Location(image)),
                 Location(image).texture_id, HasAlpha(image))

\* the batch after draw_image
DrawImageBatch(batch, registered, rect, depth, color, image) ==
    IF IsSome(ImagesGet(registered, image))
    THEN LET img == Unwrap(ImagesGet(registered, image))
         IN AddImageRect(batch, rect, depth, color, Coords(img), img.texture_id, HasAlpha(image))
    ELSE batch

\* Compositor::draw_image
DrawImage(rect, depth, color, image) ==
    /\ MayDraw
    /\ batches' = DrawImageBatch(batches, images, rect, depth, color, image)
    /\ base' = Len(batches)
    /\ lastOp' = "draw_image"
    /\ arg' = [rect |-> rect, depth |-> depth, color |-> color, image |-> image]
    /\ ret' = << >>
    /\ Track
    /\ NoLocals
    /\ NoOutput
    /\ UNCHANGED <<swept, images, events, glyphs, intercepts, result, drawn, frameOpen>>

\* ReplayOne with no primitive for a Standard entry
ReplayOneNoStandard(batch, val, depth) ==
    CASE val.kind = "Image" ->
            AddImageRect(batch, val.rect, depth, val.color, val.coords, val.image, val.has_alpha)
      [] val.kind = "Mask" ->
            AddMaskRect(batch, val.rect, depth, val.color, val.coords, val.image, val.has_alpha)
      [] OTHER -> batch

\* ReplayOne with a Mask entry replayed as an image rectangle
ReplayOneSwapped(batch, val, depth) ==
    CASE val.kind \in {"Image", "Mask"} ->
            AddImageRect(batch, val.rect, depth, val.color, val.coords, val.image, val.has_alpha)
      [] OTHER -> AddRect(batch, val.rect, depth, val.color)

\* the primitive draw_glyphs_from_cache appends for one entry
ReplayOne(batch, val, depth) ==
    CASE val.kind = "Image" ->
            AddImageRect(batch, val.rect, depth, val.color, val.coords, val.image, val.has_alpha)
      [] val.kind = "Mask" ->
            AddMaskRect(batch, val.rect, depth, val.color, val.coords, val.image, val.has_alpha)
      [] OTHER -> AddRect(batch, val.rect, depth, val.color)

\* the batch after draw_glyphs_from_cache
RECURSIVE Replay(_, _, _)
Replay(batch, cache, depth) ==
    IF cache = << >> THEN batch
    ELSE Replay(ReplayOne(batch, Head(cache), depth), Tail(cache), depth)

\* Compositor::draw_glyphs_from_cache, given the list the caller kept
DrawGlyphsFromCache(depth) ==
    /\ MayDraw
    /\ batches' = Replay(batches, result, depth)
    /\ base' = Len(batches)
    /\ lastOp' = "draw_glyphs_from_cache"
    /\ arg' = [depth |-> depth]
    /\ ret' = << >>
    /\ Track
    /\ NoLocals
    /\ NoOutput
    /\ UNCHANGED <<swept, images, events, glyphs, intercepts, result, drawn, frameOpen>>

(***************************************************************************)
(* Specifications.                                                         *)
(***************************************************************************)
\* the rectangles of draw_rect and draw_image
DrawRects == { NewRect(0, 0, 4, 4) }

\* draw_glyphs
DrawGlyphs ==
    \/ GlyphStep
    \/ ReturnPlain
    \/ SweepEnter
    \/ SweepStep
    \/ ReturnSwept

\* the compositor over frames
Next ==
    \/ \E c \in FrameCalls : DrawGlyphsEnter(c)
    \/ DrawGlyphs
    \/ Begin
    \/ Finish
    \/ AddImage
    \/ \E image \in ImageIds : RemoveImage(image)
    \/ \E rect \in DrawRects, depth \in Depths : DrawRect(rect, depth, RectColor)
    \/ \E rect \in DrawRects, depth \in Depths, image \in ImageIds :
            DrawImage(rect, depth, White, image)
    \/ \E depth \in Depths : DrawGlyphsFromCache(depth)

Spec == Init /\ [][Next]_vars

\* one text run of any shape, and its replay
NextRun ==
    \/ lastOp = "new" /\ \E c \in RunCalls : DrawGlyphsEnter(c)
    \/ DrawGlyphs
    \/ lastOp = "draw_glyphs" /\ Begin
    \/ lastOp = "begin" /\ \E depth \in Depths : DrawGlyphsFromCache(depth)

SpecRun == Init /\ [][NextRun]_vars

(***************************************************************************)
(* Properties.                                                             *)
(***************************************************************************)
Range(seq) == { seq[i] : i \in DOMAIN seq }

Count(p, seq) == Cardinality({ i \in DOMAIN seq : seq[i] = p })

\* the two sequences hold the same elements, each as many times
SameBag(a, b) == \A p \in Range(a) \cup Range(b) : Count(p, a) = Count(p, b)

\* the kind of primitive a CachedRect of a kind stands for
PrimKind(kind) ==
    CASE kind = "Image" -> "image"
      [] kind = "Mask" -> "mask"
      [] OTHER -> "rect"

\* draw_glyphs is running, or has just returned
InOrAfterRun == pc # "idle" \/ lastOp = "draw_glyphs"

\* C1: replaying the list a draw_glyphs call returned, at the depth of that
\* call, appends to the batch the very sequence of primitives the call had
\* appended: the same kinds, rectangles, colours, atlas coordinates, texture
\* ids, alpha flags and depths, in the same order; on a freshly reset batch
\* the batch is then that sequence.
C1_ReplayEquivalence ==
    (lastOp = "draw_glyphs_from_cache" /\ arg.depth = call.depth)
        => /\ Appended = drawn
           /\ base = 0 => batches = drawn

\* a run of a bitmap glyph and a mask glyph with a cursor and an underline was
\* replayed on a reset batch
C1_Witness ==
    /\ lastOp = "draw_glyphs_from_cache"
    /\ arg.depth = call.depth
    /\ base = 0
    /\ {"Image", "Mask", "Standard"} \subseteq { result[i].kind : i \in DOMAIN result }
    /\ HasUnderline(call.style)
    /\ Len(batches) >= 5

\* C2: while draw_glyphs runs and when it has returned, the list it builds and
\* the primitives it has appended to the batch correspond one to one, in
\* order: as many entries as primitives, the i-th of the same kind, rectangle
\* and colour.
C2_RecordedAsAppended ==
    InOrAfterRun =>
        /\ Len(result) = Len(Appended)
        /\ \A i \in DOMAIN result :
              /\ PrimKind(result[i].kind) = Appended[i].kind
              /\ result[i].rect = Appended[i].rect
              /\ result[i].color = Appended[i].color

\* the sweep of a run that has appended glyph, background and caret
\* primitives is under way
C2_Witness ==
    /\ pc = "sweep"
    /\ ui = 2
    /\ call.style.cursor.kind = "Caret"
    /\ IsSome(call.style.background_color)
    /\ Len(result) >= 4
    /\ Len(batches) = Len(result)

\* C3: the display list of the finish that ends a frame holds exactly the
\* primitives appended since the frame's begin: none of before that begin,
\* none missing.
C3_FrameContents ==
    (lastOp = "finish" /\ arg.open) => SameBag(list, sinceBegin)

\* a frame of two primitives at two depths was finished, after a text run
\* drawn before the frame's begin whose primitives are not in the list
C3_Witness ==
    /\ lastOp = "finish"
    /\ arg.open
    /\ Len(list) >= 2
    /\ { list[i].depth : i \in DOMAIN list } = Depths
    /\ drawn # << >>
    /\ Range(drawn) \cap Range(list) = {}

\* C4: a finish that directly follows a begin builds an empty display list.
C4_BeginThenFinishEmpty ==
    (lastOp = "finish" /\ arg.prev = "begin") => list = << >>

\* begin, then finish, after a text run had been drawn
C4_Witness ==
    /\ lastOp = "finish"
    /\ arg.prev = "begin"
    /\ drawn # << >>
    /\ list = << >>

\* C5: a finish that directly follows a finish builds an empty display list.
C5_SecondFinishEmpty ==
    (lastOp = "finish" /\ arg.prev = "finish") => list = << >>

\* the first of the two finishes had built a display list that was not empty
C5_Witness ==
    /\ lastOp = "finish"
    /\ arg.prev = "finish"
    /\ arg.prevList # << >>
    /\ list = << >>

\* the glyph's lookup misses, or its entry's image has no atlas location
Misses(glyph) ==
    IF SessionGet(glyph.id) = NoneOf THEN TRUE
    ELSE SessionGetImage(Unwrap(SessionGet(glyph.id)).image) = NoneOf

\* how many elements of a sequence satisfy a test
CountIf(seq, Test(_)) == Cardinality({ i \in DOMAIN seq : Test(seq[i]) })

IsHit(glyph) == ~Misses(glyph)

IsGlyphEntry(e) == e.kind \in {"Image", "Mask"}

\* C6: the iteration of draw_glyphs's loop over a glyph whose lookup misses,
\* or whose image has no atlas location, changes neither the list, nor the
\* batch, nor the intercept buffer, and goes on to the next glyph; the list
\* the call returns has one glyph entry for each glyph that did resolve.
C6_MissSkipped ==
    [][ /\ (pc = "glyphs" /\ gi <= Len(call.glyphs) /\ Misses(call.glyphs[gi]))
            => /\ result' = result
               /\ batches' = batches
               /\ intercepts' = intercepts
               /\ pc' = "glyphs"
               /\ gi' = gi + 1
        /\ lastOp' = "draw_glyphs"
            => CountIf(result', IsGlyphEntry) = CountIf(call'.glyphs, IsHit)
      ]_vars

\* a run with background, cursor and underline returned whose first glyph
\* missed and whose second resolved
C6_Witness ==
    /\ lastOp = "draw_glyphs"
    /\ Len(call.glyphs) = 2
    /\ Misses(call.glyphs[1])
    /\ ~Misses(call.glyphs[2])
    /\ IsSome(call.style.background_color)
    /\ call.style.cursor.kind = "Block"
    /\ HasUnderline(call.style)
    /\ CountIf(result, IsGlyphEntry) = 1
    /\ Len(result) = 4

\* C7: draw_image with an identifier that is not registered leaves the batch
\* and the image cache as they were; with a registered identifier it appends
\* exactly one image primitive.
C7_DrawImage ==
    [][ lastOp' = "draw_image"
            => /\ images' = images
               /\ events' = events
               /\ IF arg'.image \in images
                  THEN /\ Len(batches') = Len(batches) + 1
                       /\ SubSeq(batches', 1, Len(batches)) = batches
                       /\ batches'[Len(batches')].kind = "image"
                  ELSE batches' = batches
      ]_vars

\* draw_image was called on a batch that is not empty with the identifier of
\* an image that had been added and removed again
C7_Witness ==
    /\ lastOp = "draw_image"
    /\ arg.image \in Allocatable
    /\ arg.image \notin images
    /\ TextureEventOf(arg.image) \in Range(events)
    /\ batches # << >>
    /\ Appended = << >>

\* a draw_glyphs call whose style has no underline is running or has returned
PlainRun == InOrAfterRun /\ ~HasUnderline(call.style)

\* C8, as stated: the intercept buffer is empty when a draw_glyphs call whose
\* style has no underline begins.
C8_EmptyWhenPlainRunBegins == PlainRun => arg.intercepts = << >>

\* C8, amended: when a draw_glyphs call whose style has no underline begins,
\* the intercept buffer holds what the last underlined call that returned
\* left in it, its expanded intervals; it is empty if there was no such call
\* or that call recorded no interval.
C8_LeftoverWhenPlainRunBegins == PlainRun => arg.intercepts = swept

\* a run without underline began with the two expanded intervals of an
\* earlier underlined run in the buffer
C8_Witness ==
    /\ lastOp = "draw_glyphs:enter"
    /\ ~HasUnderline(call.style)
    /\ arg.intercepts = << <<1, 5>>, <<9, 13>> >>
    /\ swept = arg.intercepts

\* the entry is the run's background rectangle
IsBackground(e) ==
    /\ IsSome(call.style.background_color)
    /\ e.rect = LineRect(call)
    /\ e.color = Unwrap(call.style.background_color)

\* the entry is the run's cursor rectangle
IsCursor(e) ==
    \/ call.style.cursor.kind = "Block" /\ e.rect = LineRect(call) /\ e.color = call.style.cursor.color
    \/ call.style.cursor.kind = "Caret" /\ e.rect = CaretRect(call) /\ e.color = call.style.cursor.color

\* C9: throughout a draw_glyphs call whose style has no underline, and at its
\* return, the intercept buffer is as the call found it, and every Standard
\* entry of the list is a background or a cursor rectangle.
C9_PlainRunLeavesIntercepts ==
    PlainRun =>
        /\ intercepts = arg.intercepts
        /\ \A i \in DOMAIN result :
              result[i].kind = "Standard" => IsBackground(result[i]) \/ IsCursor(result[i])

\* a run without underline returned background rectangles for glyphs with
\* descender ink, the buffer holding intervals of an earlier run
C9_Witness ==
    /\ lastOp = "draw_glyphs"
    /\ ~HasUnderline(call.style)
    /\ intercepts # << >>
    /\ Len(call.glyphs) = 2
    /\ CountIf(result, IsGlyphEntry) = 2
    /\ Len(result) = 4

IsUnderlineEntry(e) == e.kind = "Standard" /\ e.color = UnderlineColor

\* the horizontal extents [left, right) of the underline rectangles of a list
UnderlineSegments(res) ==
    LET segs == SelectSeq(res, IsUnderlineEntry)
    IN [i \in DOMAIN segs |-> <<segs[i].rect.x, segs[i].rect.x + segs[i].rect.width>>]

\* the intervals are pairwise disjoint, in increasing order, inside [left, right]
Orderly(ints, left, right) ==
    /\ \A i \in DOMAIN ints : left <= ints[i][1] /\ ints[i][1] <= ints[i][2] /\ ints[i][2] <= right
    /\ \A i, j \in DOMAIN ints : i < j => ints[i][2] < ints[j][1]

\* the maximal gaps of [left, right] that no interval covers
Gaps(ints, left, right) ==
    { g \in ({left} \cup { ints[i][2] : i \in DOMAIN ints })
              \X ({right} \cup { ints[i][1] : i \in DOMAIN ints }) :
        /\ g[1] < g[2]
        /\ \A i \in DOMAIN ints : ints[i][2] <= g[1] \/ g[2] <= ints[i][1] }

\* C10: when the expanded intervals of an underlined run are pairwise
\* disjoint, in increasing order and inside the run's extent [x, x + width],
\* the underline rectangles of the list returned are the maximal gaps of the
\* extent that no expanded interval covers, from left to right.
C10_UnderlineGaps ==
    (lastOp = "draw_glyphs" /\ HasUnderline(call.style)
        /\ Orderly(intercepts, call.rect.x, call.rect.x + call.rect.width))
    => LET segs == UnderlineSegments(result)
       IN /\ Range(segs) = Gaps(intercepts, call.rect.x, call.rect.x + call.rect.width)
          /\ \A i, j \in DOMAIN segs : i < j => segs[i][2] <= segs[j][1]

\* the descender intervals (2, 4) and (10, 12) on the run [0, 20] gave the
\* segments [0, 1), [5, 9), [13, 20)
C10_Witness ==
    /\ lastOp = "draw_glyphs"
    /\ call.rect.x = 0
    /\ call.rect.width = 20
    /\ intercepts = << <<1, 5>>, <<9, 13>> >>
    /\ UnderlineSegments(result) = << <<0, 1>>, <<5, 9>>, <<13, 20>> >>

\* the primitive is an underline rectangle
IsUnderlinePrim(p) == p.kind = "rect" /\ p.color = UnderlineColor

\* C11: every underline rectangle that draw_glyphs records or appends has a
\* width greater than zero, whatever the order and the overlaps of the
\* intercepts and whatever the width of the run: a gap of zero or negative
\* width gives no rectangle.
C11_UnderlinePositiveWidth ==
    InOrAfterRun =>
        /\ \A i \in DOMAIN result : IsUnderlineEntry(result[i]) => result[i].rect.width > 0
        /\ \A i \in DOMAIN Appended : IsUnderlinePrim(Appended[i]) => Appended[i].rect.width > 0

\* a run of width zero at 4 returned with the intercepts (9, 13), (1, 5), in
\* that order: the gaps before (1, 5) and before the run's end are negative,
\* the only rectangle is [4, 9)
C11_Witness ==
    /\ lastOp = "draw_glyphs"
    /\ call.rect.width = 0
    /\ intercepts = << <<9, 13>>, <<1, 5>> >>
    /\ UnderlineSegments(result) = << <<4, 9>> >>

\* the glyph entries of a list, in order
GlyphEntries(res) == SelectSeq(res, IsGlyphEntry)

IsCursorColoured(e) == e.kind = "Standard" /\ e.color = CursorColor

\* the Standard entries of a list that have the cursor's colour, in order
CursorEntries(res) == SelectSeq(res, IsCursorColoured)

\* C12, as stated: the list a draw_glyphs call returns holds one cursor
\* rectangle for each resolved glyph, a block cursor's at that glyph's
\* rectangle's x and of that glyph's rectangle's width, a caret's at that
\* glyph's rectangle's x and 3 wide, both from the topline and of the line's
\* height; none without a cursor.
C12_CursorOverGlyphRect ==
    lastOp = "draw_glyphs" =>
        LET gs == GlyphEntries(result)
            cs == CursorEntries(result)
            top == call.style.topline
            high == call.style.line_height
        IN CASE call.style.cursor.kind = "Block" ->
                    /\ Len(cs) = CountIf(call.glyphs, IsHit)
                    /\ \A k \in DOMAIN cs :
                          cs[k].rect = NewRect(gs[k].rect.x, top, gs[k].rect.width, high)
             [] call.style.cursor.kind = "Caret" ->
                    /\ Len(cs) = CountIf(call.glyphs, IsHit)
                    /\ \A k \in DOMAIN cs : cs[k].rect = NewRect(gs[k].rect.x, top, 3, high)
             [] OTHER -> cs = << >>

\* C12, amended: the list a draw_glyphs call returns holds one cursor
\* rectangle for each resolved glyph, a block cursor's at the run's
\* rectangle's x and of the run's rectangle's width, a caret's at the run's
\* rectangle's x and 3 wide, both from the topline and of the line's height:
\* the same rectangle for every glyph of the run; none without a cursor.
C12_CursorOverRunRect ==
    lastOp = "draw_glyphs" =>
        LET cs == CursorEntries(result)
            top == call.style.topline
            high == call.style.line_height
        IN CASE call.style.cursor.kind = "Block" ->
                    /\ Len(cs) = CountIf(call.glyphs, IsHit)
                    /\ \A k \in DOMAIN cs :
                          cs[k].rect = NewRect(call.rect.x, top, call.rect.width, high)
             [] call.style.cursor.kind = "Caret" ->
                    /\ Len(cs) = CountIf(call.glyphs, IsHit)
                    /\ \A k \in DOMAIN cs : cs[k].rect = NewRect(call.rect.x, top, 3, high)
             [] OTHER -> cs = << >>

\* a run on [2, 16] of two glyphs 5 wide at 0 and at 8 returned with a block
\* cursor: two cursor rectangles, both at 2 and 14 wide
C12_Witness ==
    /\ lastOp = "draw_glyphs"
    /\ call.style.cursor.kind = "Block"
    /\ call.rect.x = 2
    /\ Len(GlyphEntries(result)) = 2
    /\ GlyphEntries(result)[1].rect.x = 0
    /\ GlyphEntries(result)[2].rect.x = 8
    /\ GlyphEntries(result)[2].rect.width = 5
    /\ Len(CursorEntries(result)) = 2
    /\ CursorEntries(result)[2].rect.x = 2
    /\ CursorEntries(result)[2].rect.width = 14

IsBackgroundColoured(e) == e.kind = "Standard" /\ e.color = BgColor

\* the Standard entries of a list that have the background's colour, in order
BackgroundEntries(res) == SelectSeq(res, IsBackgroundColoured)

\* C13, as stated: with a background colour, the list a draw_glyphs call
\* returns holds one background rectangle for each resolved glyph, at that
\* glyph's rectangle's x and of that glyph's rectangle's width, from the
\* topline and of the line's height; without one, none.
C13_BackgroundOverGlyphRect ==
    lastOp = "draw_glyphs" =>
        LET gs == GlyphEntries(result)
            bs == BackgroundEntries(result)
        IN IF IsSome(call.style.background_color)
           THEN /\ Len(bs) = CountIf(call.glyphs, IsHit)
                /\ \A k \in DOMAIN bs :
                      bs[k].rect = NewRect(gs[k].rect.x, call.style.topline,
                                           gs[k].rect.width, call.style.line_height)
           ELSE bs = << >>

\* C13, amended: with a background colour, the list a draw_glyphs call
\* returns holds one background rectangle for each resolved glyph, at the
\* run's rectangle's x and of the run's rectangle's width, from the topline
\* and of the line's height: the same rectangle for every glyph of the run;
\* without one, none.
C13_BackgroundOverRunRect ==
    lastOp = "draw_glyphs" =>
        LET bs == BackgroundEntries(result)
        IN IF IsSome(call.style.background_color)
           THEN /\ Len(bs) = CountIf(call.glyphs, IsHit)
                /\ \A k \in DOMAIN bs :
                      bs[k].rect = NewRect(call.rect.x, call.style.topline,
                                           call.rect.width, call.style.line_height)
           ELSE bs = << >>

\* a run on [0, 20] of a bitmap glyph 8 wide at 1 and a mask glyph 5 wide at
\* 8 returned with a background: two background rectangles at 0, 20 wide
C13_Witness ==
    /\ lastOp = "draw_glyphs"
    /\ IsSome(call.style.background_color)
    /\ call.rect.width = 20
    /\ Len(GlyphEntries(result)) = 2
    /\ GlyphEntries(result)[1].kind = "Image"
    /\ GlyphEntries(result)[1].rect.x = 1
    /\ GlyphEntries(result)[2].rect.x = 8
    /\ Len(BackgroundEntries(result)) = 2
    /\ BackgroundEntries(result)[1] = BackgroundEntries(result)[2]
    /\ BackgroundEntries(result)[1].rect.x = 0

\* the sequence a is the beginning of the sequence b
IsPrefix(a, b) == Len(a) <= Len(b) /\ SubSeq(b, 1, Len(a)) = a

\* C14: a finish hands its sink the texture events pending, all of them and
\* in their order, and leaves none pending; every other step hands no sink
\* anything and keeps the pending events, adding to them at most.  So an
\* event is delivered by the first finish after it arose, and by that one
\* only.
C14_EventsDeliveredOnce ==
    [][ IF lastOp' = "finish"
        THEN sink' = events /\ events' = << >>
        ELSE sink' = << >> /\ IsPrefix(events, events')
      ]_vars

\* a finish delivered the event of an image's registration and the event of
\* a glyph's rasterization, both pending since the finish before
C14_Witness ==
    /\ lastOp = "finish"
    /\ Cardinality(Range(sink)) = 2
    /\ \E image \in Allocatable : TextureEventOf(image) \in Range(sink)
    /\ \E id \in glyphs : TextureEventOf(Entry(id).image) \in Range(sink)
    /\ events = << >>

\* C15: draw_glyphs_from_cache and draw_rect leave the glyph cache, the
\* image cache, the pending texture events and the intercept buffer as they
\* were, and only append to the batch; draw_glyphs_from_cache appends one
\* primitive for each entry of the list, of the entry's kind and in the
\* list's order, so nothing for an empty list; draw_rect appends one.
C15_ReplayAndRectTouchBatchOnly ==
    [][ lastOp' \in {"draw_glyphs_from_cache", "draw_rect"}
            => /\ glyphs' = glyphs
               /\ images' = images
               /\ events' = events
               /\ intercepts' = intercepts
               /\ IsPrefix(batches, batches')
               /\ IF lastOp' = "draw_rect"
                  THEN Len(batches') = Len(batches) + 1
                  ELSE /\ Len(batches') = Len(batches) + Len(result)
                       /\ \A i \in DOMAIN result :
                             batches'[Len(batches) + i].kind = PrimKind(result[i].kind)
      ]_vars

\* a list of two masks and three underline rectangles was replayed, with
\* glyphs cached, a texture event pending and intervals in the buffer
C15_Witness ==
    /\ lastOp = "draw_glyphs_from_cache"
    /\ Len(result) = 5
    /\ Len(Appended) = 5
    /\ glyphs # {}
    /\ events # << >>
    /\ intercepts # << >>

\* the glyphs of a run that resolve, in the run's order
HitGlyphs(gs) == SelectSeq(gs, IsHit)

\* how many entries a resolved glyph gets under a style
EntriesPerGlyph(style) ==
    1 + (IF IsSome(style.background_color) THEN 1 ELSE 0)
      + (IF style.cursor.kind # "None" THEN 1 ELSE 0)

\* C16: the list a draw_glyphs call returns is, for each resolved glyph in
\* the order of the input, that glyph's own entry, then its background
\* rectangle if the style has a background colour, then its cursor rectangle
\* if the style has a cursor, with nothing in between; every underline
\* rectangle comes after all of these, and nothing else does.
C16_EmissionOrder ==
    lastOp = "draw_glyphs" =>
        LET hits == HitGlyphs(call.glyphs)
            per == EntriesPerGlyph(call.style)
        IN /\ Len(result) >= Len(hits) * per
           /\ \A k \in DOMAIN hits :
                 LET first == (k - 1) * per + 1
                 IN /\ IsGlyphEntry(result[first])
                    /\ result[first].rect = GlyphRect(hits[k], Entry(hits[k].id))
                    /\ IsSome(call.style.background_color)
                          => IsBackgroundColoured(result[first + 1])
                    /\ call.style.cursor.kind # "None"
                          => IsCursorColoured(result[first + per - 1])
           /\ \A i \in (Len(hits) * per + 1)..Len(result) : IsUnderlineEntry(result[i])

\* a run of a bitmap glyph and a mask glyph with background, caret and
\* underline returned: image, background, caret, mask, background, caret,
\* then the underline rectangles
C16_Witness ==
    /\ lastOp = "draw_glyphs"
    /\ Len(HitGlyphs(call.glyphs)) = 2
    /\ IsSome(call.style.background_color)
    /\ call.style.cursor.kind = "Caret"
    /\ Len(result) >= 8
    /\ result[1].kind = "Image"
    /\ result[4].kind = "Mask"
    /\ IsUnderlineEntry(result[7])
    /\ IsUnderlineEntry(result[8])

IsGlyphPrim(p) == p.kind \in {"image", "mask"}

\* C17: a draw_glyphs call records one glyph entry and appends one glyph
\* primitive for each resolved glyph, in order: for a glyph whose entry is a
\* bitmap an Image in opaque white with the alpha flag of the entry's image,
\* for any other a Mask in the run's text colour with the alpha flag set.
C17_GlyphClassification ==
    lastOp = "draw_glyphs" =>
        LET hits == HitGlyphs(call.glyphs)
            gs == GlyphEntries(result)
            ps == SelectSeq(Appended, IsGlyphPrim)
        IN /\ Len(gs) = Len(hits)
           /\ Len(ps) = Len(hits)
           /\ \A k \in DOMAIN hits :
                 IF Entry(hits[k].id).is_bitmap
                 THEN /\ gs[k].kind = "Image" /\ ps[k].kind = "image"
                      /\ gs[k].color = White /\ ps[k].color = White
                      /\ gs[k].has_alpha = HasAlpha(Entry(hits[k].id).image)
                      /\ ps[k].has_alpha = HasAlpha(Entry(hits[k].id).image)
                 ELSE /\ gs[k].kind = "Mask" /\ ps[k].kind = "mask"
                      /\ gs[k].color = call.style.color /\ ps[k].color = call.style.color
                      /\ gs[k].has_alpha /\ ps[k].has_alpha

\* a run of a bitmap glyph whose image has no alpha channel and a bitmap
\* glyph whose image has one returned
C17_Witness ==
    /\ lastOp = "draw_glyphs"
    /\ Len(GlyphEntries(result)) = 2
    /\ GlyphEntries(result)[1].kind = "Image"
    /\ GlyphEntries(result)[2].kind = "Image"
    /\ GlyphEntries(result)[1].has_alpha # GlyphEntries(result)[2].has_alpha
    /\ GlyphEntries(result)[1].color = White

\* C18: the iteration of draw_glyphs's loop over a glyph appends one
\* interval to the intercept buffer if the style has an underline, the glyph
\* resolved, its entry's top less the rounded underline offset is below its
\* entry's height and the entry has a descender range; the interval is that
\* range shifted by the x of the glyph's entry in the list.  Otherwise the
\* iteration leaves the buffer as it was.
C18_IntervalAccumulation ==
    [][ lastOp' = "draw_glyphs:glyph"
            => LET glyph == call.glyphs[gi]
                   entry == Entry(glyph.id)
                   offset == Round2(Unwrap(call.style.underline).offset)
                   gx == result'[Len(result) + 1].rect.x
                   pushes == /\ IsSome(call.style.underline)
                             /\ IsHit(glyph)
                             /\ entry.top - offset < entry.height
                             /\ IsSome(entry.desc)
               IN intercepts' =
                    IF pushes
                    THEN Append(intercepts, <<Unwrap(entry.desc)[1] + gx, Unwrap(entry.desc)[2] + gx>>)
                    ELSE intercepts
      ]_vars

\* the loop of an underlined run has been over two resolved glyphs with
\* descender ranges: the first, whose top less the offset equals its height,
\* gave no interval; the second, drawn at 8, gave its range (2, 4) as (10, 12)
C18_Witness ==
    /\ lastOp = "draw_glyphs:glyph"
    /\ gi = 3
    /\ HasUnderline(call.style)
    /\ IsHit(call.glyphs[1])
    /\ IsSome(Entry(call.glyphs[1].id).desc)
    /\ Entry(call.glyphs[1].id).top - UnderlineOffset(call.style) = Entry(call.glyphs[1].id).height
    /\ Entry(call.glyphs[2].id).desc = Some(<<2, 4>>)
    /\ intercepts = << <<10, 12>> >>

\* C19: every underline rectangle of the list a draw_glyphs call builds lies
\* inside the run's extent: it starts at or right of the run rectangle's x
\* and ends at or left of x + width.
C19_UnderlineInsideExtent ==
    InOrAfterRun =>
        LET segs == UnderlineSegments(result)
        IN \A i \in DOMAIN segs :
              /\ call.rect.x <= segs[i][1]
              /\ segs[i][2] <= call.rect.x + call.rect.width

\* the run [0, 20] returned with the one intercept (23, 27), which starts
\* beyond the run's right edge: the underline rectangle is [0, 23)
C19_Witness ==
    /\ lastOp = "draw_glyphs"
    /\ call.rect.x = 0
    /\ call.rect.width = 20
    /\ intercepts = << <<23, 27>> >>
    /\ UnderlineSegments(result) = << <<0, 23>> >>

\* the starts of the intervals never decrease
StartsOrdered(ints) == \A i, j \in DOMAIN ints : i < j => ints[i][1] <= ints[j][1]

\* the segment [seg[1], seg[2]) meets the inside of the interval
MeetsInterior(seg, int) == seg[1] < int[2] /\ int[1] < seg[2]

\* C20: when the intercepts of an underlined run were recorded with starts
\* that never decrease, no underline rectangle of the list returned meets the
\* inside of an expanded intercept, overlapping and nested intercepts
\* included.
C20_UnderlineAvoidsIntercepts ==
    (lastOp = "draw_glyphs" /\ HasUnderline(call.style) /\ StartsOrdered(intercepts))
    => LET segs == UnderlineSegments(result)
       IN \A i \in DOMAIN segs, k \in DOMAIN intercepts : ~MeetsInterior(segs[i], intercepts[k])

\* the run [0, 20] returned with the intercepts (1, 5), (1, 4), the second
\* inside the first: the last underline rectangle is [4, 20), across the
\* end of the first
C20_Witness ==
    /\ lastOp = "draw_glyphs"
    /\ call.rect.x = 0
    /\ call.rect.width = 20
    /\ intercepts = << <<1, 5>>, <<1, 4>> >>
    /\ UnderlineSegments(result) = << <<0, 1>>, <<4, 20>> >>

\* the list and the intercept buffer after the loop over the glyphs gs
RECURSIVE RunLoop(_, _, _)
RunLoop(st, c, gs) ==
    IF gs = << >> THEN st
    ELSE RunLoop([res |-> LoopResult(st.res, c, Head(gs)),
                  ints |-> LoopIntercepts(st.ints, c, Head(gs))], c, Tail(gs))

\* the list after the sweep from the position `from` over the intercepts
RECURSIVE RunSweep(_, _, _, _)
RunSweep(res, c, from, ints) ==
    IF ints = << >> THEN SweepResult(res, c, from, RunEnd(c))
    ELSE RunSweep(SweepResult(res, c, from, Head(ints)[1]), c, Head(ints)[2], Tail(ints))

\* the list draw_glyphs returns for a call that finds ints0 in the
\* intercept buffer
RunResult(ints0, c) ==
    LET st == RunLoop([res |-> << >>, ints |-> EnterIntercepts(ints0, c.style)], c, c.glyphs)
    IN IF HasUnderline(c.style)
       THEN RunSweep(st.res, c, c.rect.x, Expanded(st.ints))
       ELSE st.res

\* contents earlier runs may have left in the intercept buffer: none, two
\* intervals inside a run, intervals out of a run and out of order
Leftovers == { << >>, << <<1, 5>>, <<9, 13>> >>, << <<23, 27>>, <<0, 3>> >> }

\* C21: the list a draw_glyphs call returns, and the primitives it appends,
\* are those the same call gives on any other contents of the intercept
\* buffer: whatever earlier runs left there, with or without underline, the
\* output is a function of the rectangle, the depth, the style and the
\* glyphs alone.
C21_NoLeftoverLeak ==
    lastOp = "draw_glyphs" =>
        \A left \in Leftovers :
            /\ result = RunResult(left, call)
            /\ drawn = Replay(<< >>, RunResult(left, call), call.depth)

\* an underlined run of two glyphs with descender ink returned its three
\* underline rectangles, having found the two expanded intervals of an
\* earlier run in the buffer
C21_Witness ==
    /\ lastOp = "draw_glyphs"
    /\ HasUnderline(call.style)
    /\ arg.intercepts = << <<1, 5>>, <<9, 13>> >>
    /\ UnderlineSegments(result) = << <<0, 1>>, <<5, 9>>, <<13, 20>> >>
    /\ Len(drawn) = 5

====
